---- MODULE Spec2Model ----
(***************************************************************************)
(* A model of the Panasonic H&C Bluetooth controller:                      *)
(*   panasonic_hc_proto.py  the parcel / packet codec and status decoder   *)
(*   panasonic_hc.py        the session: commands, write lock, status      *)
(*                          cache and subscriber callbacks                 *)
(* Bytes are integers 0..255, byte strings are sequences of bytes.         *)
(* Temperatures are kept exactly: a status temperature as twice its value  *)
(* (the code divides by 2), a requested temperature in tenths of a degree. *)
(***************************************************************************)
EXTENDS Integers, Sequences, FiniteSets, TLC

VARIABLES
    \* codec round trip (panasonic_hc_proto.py)
    parcel,      \* the parcel being encoded
    wire,        \* its encoded bytes, possibly tampered with
    tamper,      \* the bit flipped on the wire, or NoTamper
    deobf,       \* the result of _decode(wire), the first step of parse
    decoded,     \* the result of PanasonicBLEParcel.parse(wire)
    cstage,      \* "built" -> "encoded" -> ("tampered" ->) "parsed"
    \* status decoder
    pdataIn,     \* a type-129 payload
    packetOut,   \* the result of PanasonicBLEPacketStatus(129, pdataIn)
    \* PanasonicHC (panasonic_hc.py)
    status,      \* self.status
    callbacks,   \* self._on_update_callbacks
    lastNote,    \* what the last on_notification call did
    connected,   \* self._conn.is_connected
    locked,      \* self._lock is held
    waiters,     \* the tasks queued on self._lock, first in first out
    pc,          \* where each task stands in async_connect / _async_write_command
    cmd,         \* the command each task issued
    result,      \* how each task's call ended
    acquired,    \* the tasks in the order they acquired self._lock
    writes       \* the calls of write_gatt_char the transport has seen

codecVars == <<parcel, wire, tamper, deobf, decoded, cstage>>
statusVars == <<pdataIn, packetOut>>
notifyVars == <<status, callbacks, lastNote>>
writeVars == <<connected, locked, waiters, pc, cmd, result, acquired, writes>>
vars == <<codecVars, statusVars, notifyVars, writeVars>>

----------------------------------------------------------------------------
(* Bytes                                                                   *)

Byte == 0..255

\* a ^ b on bytes: bit by bit on each half byte
RECURSIVE XorBits(_, _)
XorBits(a, b) ==
    IF a = 0 THEN b
    ELSE IF b = 0 THEN a
    ELSE ((a + b) % 2) + 2 * XorBits(a \div 2, b \div 2)

XorNibble == [a \in 0..15 |-> [b \in 0..15 |-> XorBits(a, b)]]

BitXor(a, b) ==
    16 * XorNibble[a \div 16][b \div 16] + XorNibble[a % 16][b % 16]

Bit(v, b) == (v \div (2 ^ b)) % 2

Min(a, b) == IF a < b THEN a ELSE b

Ok(v) == [ok |-> TRUE, value |-> v]
Err(e) == [ok |-> FALSE, err |-> e]

----------------------------------------------------------------------------
(* The obfuscation transform                                               *)

RECURSIVE _cksumXor(_)
\* a checksum that folds with XOR instead of adding
_cksumXor(data) ==
    IF data = <<>> THEN 0
    ELSE BitXor(_cksumXor(SubSeq(data, 1, Len(data) - 1)), data[Len(data)])

RECURSIVE _cksum(_)
_cksum(data) ==
    IF data = <<>> THEN 0
    ELSE (_cksum(SubSeq(data, 1, Len(data) - 1)) + data[Len(data)]) % 256

\* data[1:-1]
Interior(data) == SubSeq(data, 2, Len(data) - 1)

_decode(data) ==
    IF Len(data) = 0 THEN Err("IndexError")
    ELSE LET w == [x \in 1..Len(data) |-> BitXor(data[x], 105)]
             u == [x \in 1..Len(w) |->
                      IF x = 1 THEN BitXor(w[1], 202) ELSE BitXor(w[x], w[x - 1])]
         IN  IF _cksum(Interior(u)) # u[Len(u)]
             THEN Err("ValueError: Bad Checksum")
             ELSE Ok(u)

\* data[-1] = _cksum(data[1:-1])
SetCksum(data) == [data EXCEPT ![Len(data)] = _cksum(Interior(data))]

\* data[0] ^= 202, then data[x] ^= data[x - 1] upwards: each byte is
\* XORed with the already chained byte before it
RECURSIVE Chain(_, _)
Chain(c, m) ==
    IF m = 0 THEN <<>>
    ELSE LET prev == Chain(c, m - 1)
         IN  Append(prev, BitXor(c[m], IF m = 1 THEN 202 ELSE prev[m - 1]))

_encode(data) ==
    LET k == Chain(SetCksum(data), Len(data))
    IN  [x \in 1..Len(data) |-> BitXor(k[x], 105)]

----------------------------------------------------------------------------
(* Enumerations                                                            *)

MODE == [heat |-> 1, cool |-> 2, fan_only |-> 3, dry |-> 4, auto |-> 5]
FANSPEED == [auto |-> 2, high |-> 3, medium |-> 4, low |-> 5]
COMPONENT ==
    [I_UNIT1 |-> 1, O_UNIT1 |-> 9, ALL_UNITS |-> 247, APP |-> 249,
     BLE_MODULE_UART |-> 254]
OPERATION == [SET |-> 0, SET_RES |-> 1, REQ |-> 2, REQ_RES |-> 3, NOTIFY |-> 4]

\* Enum(value): the member with that value, or ValueError
IsValueOf(enum, v) == \E n \in DOMAIN enum : enum[n] = v
NameOf(enum, v) == CHOOSE n \in DOMAIN enum : enum[n] = v

----------------------------------------------------------------------------
(* Packets                                                                 *)

Packet(ptype, pdata) == [ptype |-> ptype, pdata |-> pdata]

\* the status decoder reading the room temperature one byte too early
PacketStatusOffByOne(ptype, pdata) ==
    LET n == Len(pdata)
    IN  IF n < 6 THEN Err("IndexError")
        ELSE IF ~IsValueOf(MODE, (pdata[1] \div 32) % 8) THEN Err("ValueError: MODE")
        ELSE IF ~IsValueOf(FANSPEED, (pdata[2] \div 32) % 8)
             THEN Err("ValueError: FANSPEED")
        ELSE Ok([kind |-> "status", ptype |-> ptype, pdata |-> pdata,
                 power |-> pdata[1] % 2,
                 mode |-> NameOf(MODE, (pdata[1] \div 32) % 8),
                 temp2 |-> pdata[5] - 70,
                 fanspeed |-> NameOf(FANSPEED, (pdata[2] \div 32) % 8),
                 powersave |-> pdata[n - 5],
                 curtemp2 |-> IF n >= 12 THEN pdata[6] - 70 ELSE 0])

\* PanasonicBLEPacketStatus.__init__, statement by statement
PanasonicBLEPacketStatus(ptype, pdata) ==
    LET n == Len(pdata)
    IN  IF n < 1 THEN Err("IndexError")                          \* pdata[0]
        ELSE IF ~IsValueOf(MODE, (pdata[1] \div 32) % 8)
             THEN Err("ValueError: MODE")
        ELSE IF n < 5 THEN Err("IndexError")                     \* pdata[4]
        ELSE IF ~IsValueOf(FANSPEED, (pdata[2] \div 32) % 8)
             THEN Err("ValueError: FANSPEED")
        ELSE IF n < 6 THEN Err("IndexError")                     \* pdata[-6]
        ELSE Ok([kind |-> "status", ptype |-> ptype, pdata |-> pdata,
                 power |-> pdata[1] % 2,
                 mode |-> NameOf(MODE, (pdata[1] \div 32) % 8),
                 temp2 |-> pdata[5] - 70,
                 fanspeed |-> NameOf(FANSPEED, (pdata[2] \div 32) % 8),
                 powersave |-> pdata[n - 5],
                 curtemp2 |-> IF n > 12 THEN pdata[6] - 70 ELSE 0])

\* PanasonicBLEPacketOutdoorTemp.__init__(self) takes no ptype, pdata
PanasonicBLEPacketOutdoorTemp(ptype, pdata) == Err("TypeError")

PanasonicBLEPacket(ptype, pdata) ==
    Ok([kind |-> "generic", ptype |-> ptype, pdata |-> pdata])

\* PanasonicBLEPacket.parse(fd); fd is the bytes and the next index to read.
\* plen is kept beside the packet: the length byte the frame declared.
PacketParse(data, pos) ==
    IF pos > Len(data) THEN Err("IndexError")                    \* fd.read(1)[0]
    ELSE IF pos + 1 > Len(data) THEN Err("IndexError")           \* fd.read(1)[0]
    ELSE LET ptype == data[pos]
             plen == data[pos + 1]
             pdata == SubSeq(data, pos + 2, Min(pos + 1 + plen, Len(data)))
             made == IF ptype = 129 THEN PanasonicBLEPacketStatus(ptype, pdata)
                     ELSE IF ptype = 33
                          THEN PanasonicBLEPacketOutdoorTemp(ptype, pdata)
                     ELSE PanasonicBLEPacket(ptype, pdata)
         IN  IF ~made.ok THEN made
             ELSE [ok |-> TRUE, packet |-> made.value, plen |-> plen,
                   next |-> pos + 2 + Len(pdata)]

PacketEncode(p) == <<p.ptype, Len(p.pdata)>> \o p.pdata

----------------------------------------------------------------------------
(* Parcels                                                                 *)

PanasonicBLEParcel(src, dst, op, packets) ==
    [src |-> src, dst |-> dst, op |-> op, packets |-> packets]

\* the list comprehension of parse: num_packets calls of Packet.parse
RECURSIVE ParsePackets(_, _, _)
ParsePackets(data, pos, k) ==
    IF k = 0 THEN [ok |-> TRUE, packets |-> <<>>, plens |-> <<>>]
    ELSE LET first == PacketParse(data, pos)
         IN  IF ~first.ok THEN first
             ELSE LET rest == ParsePackets(data, first.next, k - 1)
                  IN  IF ~rest.ok THEN rest
                      ELSE [ok |-> TRUE,
                            packets |-> <<first.packet>> \o rest.packets,
                            plens |-> <<first.plen>> \o rest.plens]

\* the frame after _decode: sync byte, addressing, packets
ParseFrame(p) ==
    IF p[1] # 17 THEN Err("ValueError: Bad packet")
    ELSE IF Len(p) < 2 THEN Err("IndexError")
    ELSE IF ~IsValueOf(COMPONENT, p[2]) THEN Err("ValueError: COMPONENT")
    ELSE IF Len(p) < 3 THEN Err("IndexError")
    ELSE IF ~IsValueOf(COMPONENT, p[3]) THEN Err("ValueError: COMPONENT")
    ELSE IF Len(p) < 4 THEN Err("IndexError")
    ELSE IF ~IsValueOf(OPERATION, p[4]) THEN Err("ValueError: OPERATION")
    ELSE IF Len(p) < 5 THEN Err("IndexError")
    ELSE LET r == ParsePackets(p, 6, p[5])
         IN  IF ~r.ok THEN r
             ELSE [ok |-> TRUE,
                   value |-> PanasonicBLEParcel(NameOf(COMPONENT, p[2]),
                                                NameOf(COMPONENT, p[3]),
                                                NameOf(OPERATION, p[4]),
                                                r.packets),
                   plens |-> r.plens]

ParcelParse(data) ==
    LET d == _decode(data)
    IN  IF ~d.ok THEN d ELSE ParseFrame(d.value)

RECURSIVE EncodePackets(_)
EncodePackets(ps) ==
    IF ps = <<>> THEN <<>> ELSE PacketEncode(Head(ps)) \o EncodePackets(Tail(ps))

\* the bytes written to fd before _encode
ParcelLayout(p) ==
    <<17, COMPONENT[p.src], COMPONENT[p.dst], OPERATION[p.op], Len(p.packets)>>
        \o EncodePackets(p.packets) \o <<0>>

ParcelEncode(p) == _encode(ParcelLayout(p))

----------------------------------------------------------------------------
(* Values of the variables a specification does not exercise               *)

None == [none |-> TRUE]
NoTamper == [index |-> 0, bit |-> 0]
NotRun == Err("not run")
NoNote == [called |-> FALSE]

CodecIdle ==
    /\ parcel = None /\ wire = <<>> /\ tamper = NoTamper
    /\ deobf = NotRun /\ decoded = NotRun /\ cstage = "idle"
StatusIdle == pdataIn = <<>> /\ packetOut = NotRun
NotifyIdle == status = None /\ callbacks = <<>> /\ lastNote = NoNote
WriteIdle ==
    /\ connected = FALSE /\ locked = FALSE /\ waiters = <<>>
    /\ pc = <<>> /\ cmd = <<>> /\ result = <<>>
    /\ acquired = <<>> /\ writes = <<>>

----------------------------------------------------------------------------
(* CodecSpec: encode a parcel, possibly flip one bit of a payload byte on  *)
(* the wire, parse it back                                                 *)

MaxPackets == 2

\* status reports: 13 bytes with a room temperature, and the shortest one
StatusReport == <<33, 96, 0, 0, 99, 101, 0, 0, 0, 0, 0, 1, 0>>
ShortStatus == <<64, 64, 0, 0, 110, 0>>

CodecPackets ==
    { Packet(65, <<3>>),                  \* set power on
      Packet(76, <<9, 0, 113, 0>>),       \* set temperature 21.5
      Packet(200, <<>>),                  \* an unknown type, empty payload
      Packet(105, <<255, 128>>),          \* an unknown type
      Packet(129, <<4, 0, 14>>),          \* the status request
      Packet(129, ShortStatus),           \* a status report
      Packet(33, <<0, 215>>) }            \* an outdoor temperature report

Addressing ==
    { <<"APP", "I_UNIT1", "SET">>, <<"I_UNIT1", "APP", "NOTIFY">>,
      <<"APP", "BLE_MODULE_UART", "REQ">> }

SeqsUpTo(S, n) == UNION { [1..k -> S] : k \in 0..n }

CodecParcels ==
    { PanasonicBLEParcel(a[1], a[2], a[3], ps) :
        a \in Addressing, ps \in SeqsUpTo(CodecPackets, MaxPackets) }

\* the indices of the encoded buffer that carry packet payload
RECURSIVE PayloadIdx(_, _)
PayloadIdx(ps, pos) ==
    IF ps = <<>> THEN {}
    ELSE LET n == Len(Head(ps).pdata)
         IN  (pos + 2 .. pos + 1 + n) \cup PayloadIdx(Tail(ps), pos + 2 + n)

FlipBit(data, i, b) ==
    [data EXCEPT ![i] = IF Bit(data[i], b) = 1 THEN data[i] - 2 ^ b
                        ELSE data[i] + 2 ^ b]

CodecInit ==
    /\ parcel \in CodecParcels
    /\ wire = <<>> /\ tamper = NoTamper
    /\ deobf = NotRun /\ decoded = NotRun /\ cstage = "built"
    /\ StatusIdle /\ NotifyIdle /\ WriteIdle

EncodeStep ==
    /\ cstage = "built"
    /\ wire' = ParcelEncode(parcel)
    /\ cstage' = "encoded"
    /\ UNCHANGED <<parcel, tamper, deobf, decoded, statusVars, notifyVars, writeVars>>

TamperStep ==
    /\ cstage = "encoded"
    /\ \E i \in PayloadIdx(parcel.packets, 6), b \in 0..7 :
          /\ wire' = FlipBit(wire, i, b)
          /\ tamper' = [index |-> i, bit |-> b]
    /\ cstage' = "tampered"
    /\ UNCHANGED <<parcel, deobf, decoded, statusVars, notifyVars, writeVars>>

ParseStep ==
    /\ cstage \in {"encoded", "tampered"}
    /\ deobf' = _decode(wire)
    /\ decoded' = ParcelParse(wire)
    /\ cstage' = "parsed"
    /\ UNCHANGED <<parcel, wire, tamper, statusVars, notifyVars, writeVars>>

CodecNext == EncodeStep \/ TamperStep \/ ParseStep

CodecSpec == CodecInit /\ [][CodecNext]_vars

PacketsOf(ps) == [i \in 1..Len(ps) |-> Packet(ps[i].ptype, ps[i].pdata)]

\* C1: parse(p.encode()) succeeds and yields p's source, destination,
\* operation and packets (types and payloads, in order), for every parcel p.
RoundTrip ==
    (cstage = "parsed" /\ tamper = NoTamper) =>
        /\ decoded.ok
        /\ decoded.value.src = parcel.src
        /\ decoded.value.dst = parcel.dst
        /\ decoded.value.op = parcel.op
        /\ PacketsOf(decoded.value.packets) = parcel.packets

BadChecksum == Err("ValueError: Bad Checksum")

\* C2 as stated: every single-bit flip of an encoded payload byte makes the
\* decode fail with the checksum error, and no such buffer decodes.
TamperDetected ==
    (cstage = "parsed" /\ tamper # NoTamper) =>
        (deobf = BadChecksum /\ ~decoded.ok)

\* the flips the additive checksum catches: with p the frame before
\* obfuscation, a flip of bit b of wire byte i flips bit b of p[i] and of
\* p[i+1]; the two changes to the sum cancel when the bits differ, and add up
\* to 256 when b = 7; on the last summed byte the change must differ from the
\* change to the checksum byte.
Caught(p, i, b) ==
    /\ b < 7
    /\ IF i < Len(p) - 1 THEN Bit(p[i], b) = Bit(p[i + 1], b)
       ELSE Bit(p[i], b) # Bit(p[Len(p)], b)

\* C2 amended: a flip of bit b of an encoded payload byte i fails with the
\* checksum error exactly when Caught; every other flip passes the checksum
\* and deobfuscates to the frame with bit b of bytes i and i+1 flipped.
TamperDetectedIff ==
    (cstage = "parsed" /\ tamper # NoTamper) =>
        LET p == SetCksum(ParcelLayout(parcel))
            i == tamper.index
            b == tamper.bit
        IN  IF Caught(p, i, b)
            THEN deobf = BadChecksum /\ decoded = BadChecksum
            ELSE deobf = Ok(FlipBit(FlipBit(p, i, b), i + 1, b))

TamperCaughtWitness ==
    /\ cstage = "parsed" /\ tamper # NoTamper /\ tamper.bit < 7
    /\ deobf = BadChecksum

----------------------------------------------------------------------------
(* StatusSpec: decode one type-129 payload                                 *)

MaxStatusLen == 14

StatusByte0 == {33, 64, 97, 128, 161, 0, 193, 224}
StatusByte1 == {64, 96, 128, 160, 0, 32, 192, 224}
StatusByte4 == {99, 0}
StatusByte5 == {101, 0}
StatusFlag == {0, 1}

StatusPayload(n, b0, b1, b4, b5, ps) ==
    [i \in 1..n |->
        CASE i = 1 -> b0
          [] i = 2 -> b1
          [] i = 5 -> b4
          [] i = 6 -> b5
          [] i = n - 5 /\ i \notin {1, 2, 5, 6} -> ps
          [] OTHER -> 0]

StatusPayloads ==
    { StatusPayload(n, b0, b1, b4, b5, ps) :
        n \in 0..MaxStatusLen, b0 \in StatusByte0, b1 \in StatusByte1,
        b4 \in StatusByte4, b5 \in StatusByte5, ps \in StatusFlag }

StatusInit ==
    /\ pdataIn \in StatusPayloads
    /\ packetOut = NotRun
    /\ CodecIdle /\ NotifyIdle /\ WriteIdle

DecodeStatus ==
    /\ packetOut = NotRun
    /\ packetOut' = PanasonicBLEPacketStatus(129, pdataIn)
    /\ UNCHANGED <<pdataIn, codecVars, notifyVars, writeVars>>

StatusNext == DecodeStatus

StatusSpec == StatusInit /\ [][StatusNext]_vars

\* C9: decoding a type-129 payload D fails if len(D) < 6, or the mode field
\* (D[0] >> 5) & 7 is not in 1..5, or the fan field (D[1] >> 5) & 7 is not in
\* 2..5; otherwise power = bit 0 of D[0], mode and fan speed are the members
\* for the two fields, set temperature = (D[4] - 70) / 2, power save =
\* D[len(D) - 6], and room temperature = (D[5] - 70) / 2 exactly when
\* len(D) > 12, the zero sentinel otherwise.
StatusDecode ==
    packetOut # NotRun =>
        LET D == pdataIn
            n == Len(D)
        IN  IF n < 6 THEN ~packetOut.ok
            ELSE LET m == (D[1] \div 32) % 8
                     f == (D[2] \div 32) % 8
                 IN  IF m \notin 1..5 \/ f \notin 2..5 THEN ~packetOut.ok
                     ELSE /\ packetOut.ok
                          /\ packetOut.value.power = D[1] % 2
                          /\ MODE[packetOut.value.mode] = m
                          /\ FANSPEED[packetOut.value.fanspeed] = f
                          /\ packetOut.value.temp2 = D[5] - 70
                          /\ packetOut.value.powersave = D[n - 5]
                          /\ packetOut.value.curtemp2
                                = (IF n > 12 THEN D[6] - 70 ELSE 0)

StatusDecodeWitness ==
    /\ packetOut.ok
    /\ Len(pdataIn) = 13
    /\ packetOut.value.curtemp2 = 31 /\ packetOut.value.temp2 = 29
    /\ packetOut.value.mode = "heat" /\ packetOut.value.fanspeed = "high"

----------------------------------------------------------------------------
(* PanasonicHC: the status cache and the subscriber callbacks              *)

Status(power, mode, powersave, curtemp2, settemp2, fanspeed) ==
    [power |-> power, mode |-> mode, powersave |-> powersave,
     curtemp2 |-> curtemp2, settemp2 |-> settemp2, fanspeed |-> fanspeed]

\* What a subscriber does when it is called.  "a" only reads the status,
\* "b" unregisters itself, "c" registers "a", "d" unregisters "a".
CallbackIds == {"a", "b", "c", "d"}

register_update_callback(cbs, on_update) == Append(cbs, on_update)

\* list.remove: the first occurrence
RemoveFirst(cbs, x) ==
    LET i == CHOOSE k \in 1..Len(cbs) :
                 cbs[k] = x /\ \A j \in 1..(k - 1) : cbs[j] # x
    IN  SubSeq(cbs, 1, i - 1) \o SubSeq(cbs, i + 1, Len(cbs))

unregister_update_callback(cbs, on_update) ==
    IF \E k \in 1..Len(cbs) : cbs[k] = on_update
    THEN RemoveFirst(cbs, on_update)
    ELSE cbs

\* callback(): the subscriber list after the subscriber cb has run
RunCallback(cb, cbs) ==
    CASE cb = "a" -> cbs
      [] cb = "b" -> unregister_update_callback(cbs, "b")
      [] cb = "c" -> register_update_callback(cbs, "a")
      [] cb = "d" -> unregister_update_callback(cbs, "a")

\* for callback in self._on_update_callbacks: callback()
\* the list iterator keeps an index into the list itself
RECURSIVE Dispatch(_, _, _)
Dispatch(cbs, i, invoked) ==
    IF i > Len(cbs) THEN [callbacks |-> cbs, invoked |-> invoked]
    ELSE Dispatch(RunCallback(cbs[i], cbs), i + 1, Append(invoked, cbs[i]))

\* for packet in parcel: the status packets update the cache and dispatch
RECURSIVE HandlePackets(_, _, _, _, _)
HandlePackets(packets, k, st, cbs, dispatches) ==
    IF k > Len(packets)
    THEN [status |-> st, callbacks |-> cbs, dispatches |-> dispatches]
    ELSE LET packet == packets[k]
         IN  IF packet.kind = "status"
             THEN LET d == Dispatch(cbs, 1, <<>>)
                  IN  HandlePackets(packets, k + 1,
                          Status(packet.power, packet.mode, packet.powersave,
                                 packet.curtemp2, packet.temp2, packet.fanspeed),
                          d.callbacks,
                          Append(dispatches,
                                 [before |-> cbs, invoked |-> d.invoked]))
             ELSE HandlePackets(packets, k + 1, st, cbs, dispatches)

\* on_notification: every Exception of the parse is caught and logged
on_notification(data, st, cbs) ==
    LET parsed == ParcelParse(data)
    IN  IF ~parsed.ok
        THEN [status |-> st, callbacks |-> cbs, dispatches |-> <<>>,
              parsed |-> parsed, raised |-> FALSE]
        ELSE LET h == HandlePackets(parsed.value.packets, 1, st, cbs, <<>>)
             IN  [status |-> h.status, callbacks |-> h.callbacks,
                  dispatches |-> h.dispatches, parsed |-> parsed,
                  raised |-> FALSE]

----------------------------------------------------------------------------
(* NotifySpec: subscribers come and go while the transport delivers frames *)

MaxCallbacks == 3

\* a frame as a device sends it: checksum set, then obfuscated
Frame(body) == _encode(body \o <<0>>)

NotifyInputs ==
    { Frame(<<17, 1, 249, 4, 1, 129, 13>> \o StatusReport),
      Frame(<<17, 1, 249, 3, 1, 129, 6>> \o ShortStatus),
      Frame(<<17, 1, 249, 4, 2, 129, 13>> \o StatusReport
                \o <<129, 6>> \o ShortStatus),          \* two status packets
      Frame(<<17, 1, 249, 4, 2, 129, 6>> \o ShortStatus \o <<200, 1, 7>>),
      Frame(<<17, 1, 249, 1, 1, 65, 1, 3>>),            \* an unknown type
      Frame(<<17, 1, 249, 4, 0>>),                      \* no packets
      Frame(<<17, 1, 249, 4, 0, 9, 9>>),                \* trailing bytes
      Frame(<<17, 9, 249, 4, 1, 33, 2, 0, 215>>),       \* outdoor temperature
      Frame(<<17, 1, 249, 4, 2, 129, 6>> \o ShortStatus \o <<33, 2, 0, 215>>),
      Frame(<<16, 1, 249, 4, 1, 129, 6>> \o ShortStatus),    \* bad sync byte
      Frame(<<17, 2, 249, 4, 1, 129, 6>> \o ShortStatus),    \* unknown source
      Frame(<<17, 1, 249, 7, 1, 129, 6>> \o ShortStatus),    \* unknown operation
      Frame(<<17, 1, 249, 4, 1, 129, 6, 192, 64, 0, 0, 110, 0>>),  \* mode 6
      Frame(<<17, 1, 249, 4, 1, 129, 6, 64, 32, 0, 0, 110, 0>>),   \* fan 1
      Frame(<<17, 1, 249, 2, 1, 129, 3, 4, 0, 14>>),    \* a 3-byte status payload
      Frame(<<17, 249, 1, 0, 1, 65, 5, 3>>),            \* 5 declared, 1 sent
      Frame(<<17, 1, 249, 4, 2, 65, 1, 3>>),            \* 2 packets declared, 1 sent
      Frame(<<17, 1, 249, 4, 1, 129, 13, 33, 96, 0, 0, 99, 101, 0, 1>>),
                                                        \* 13 declared, 8 sent
      FlipBit(Frame(<<17, 1, 249, 3, 1, 129, 6>> \o ShortStatus), 13, 0),
      FlipBit(Frame(<<17, 1, 249, 4, 1, 65, 1, 3>>), 9, 2),    \* bad checksums
      <<1>>,
      <<>> }

NotifyInit ==
    /\ status = None /\ callbacks = <<>> /\ lastNote = NoNote
    /\ CodecIdle /\ StatusIdle /\ WriteIdle

Register(cb) ==
    /\ Len(callbacks) < MaxCallbacks
    /\ callbacks' = register_update_callback(callbacks, cb)
    /\ lastNote' = NoNote
    /\ UNCHANGED <<status, codecVars, statusVars, writeVars>>

Unregister(cb) ==
    /\ callbacks' = unregister_update_callback(callbacks, cb)
    /\ lastNote' = NoNote
    /\ UNCHANGED <<status, codecVars, statusVars, writeVars>>

\* the transport calls on_notification(handle, data)
Notify(data) ==
    LET r == on_notification(data, status, callbacks)
    IN  /\ Len(r.callbacks) <= MaxCallbacks
        /\ status' = r.status
        /\ callbacks' = r.callbacks
        /\ lastNote' = [called |-> TRUE, data |-> data, before |-> status,
                        parsed |-> r.parsed, dispatches |-> r.dispatches,
                        raised |-> r.raised]
        /\ UNCHANGED <<codecVars, statusVars, writeVars>>

NotifyNext ==
    \/ \E cb \in CallbackIds : Register(cb)
    \/ \E cb \in CallbackIds : Unregister(cb)
    \/ \E data \in NotifyInputs : Notify(data)

NotifySpec == NotifyInit /\ [][NotifyNext]_vars

\* The frame a notification carries declares more than it holds: a packet's
\* type and length bytes, or the payload bytes its length byte declares, run
\* past the last byte before the checksum.
RECURSIVE TruncatedAt(_, _, _)
TruncatedAt(p, pos, k) ==
    IF k = 0 THEN FALSE
    ELSE IF pos + 1 > Len(p) - 1 THEN TRUE
    ELSE IF pos + 1 + p[pos + 1] > Len(p) - 1 THEN TRUE
    ELSE TruncatedAt(p, pos + 2 + p[pos + 1], k - 1)

Truncated(data) ==
    LET d == _decode(data)
    IN  /\ d.ok
        /\ \/ Len(d.value) < 6
           \/ TruncatedAt(d.value, 6, d.value[5])

HasStatusPacket(packets) == \E k \in 1..Len(packets) : packets[k].kind = "status"

\* C4: on_notification never raises, and an input that fails to decode (bad
\* checksum, bad sync byte, unknown code, truncated input) or that holds no
\* status packet leaves the cached status as it was.
NotificationResilience ==
    lastNote.called =>
        /\ ~lastNote.raised
        /\ (\/ ~lastNote.parsed.ok
            \/ Truncated(lastNote.data)
            \/ ~HasStatusPacket(lastNote.parsed.value.packets))
              => status = lastNote.before

IsPrefix(s, t) == Len(s) <= Len(t) /\ SubSeq(t, 1, Len(s)) = s

StatusPackets(packets) == SelectSeq(packets, LAMBDA q : q.kind = "status")

\* C5: each decoded status packet replaces the cached status and calls every
\* callback registered when its dispatch begins exactly once, in registration
\* order, also when callbacks register or unregister during the dispatch.
SubscriberDispatch ==
    (lastNote.called /\ lastNote.parsed.ok) =>
        LET sp == StatusPackets(lastNote.parsed.value.packets)
        IN  /\ Len(lastNote.dispatches) = Len(sp)
            /\ sp # <<>> =>
                  LET q == sp[Len(sp)]
                  IN  status = Status(q.power, q.mode, q.powersave, q.curtemp2,
                                      q.temp2, q.fanspeed)
            /\ \A k \in 1..Len(lastNote.dispatches) :
                  IsPrefix(lastNote.dispatches[k].before,
                           lastNote.dispatches[k].invoked)

\* Bytes taken by the packets of a parcel: two header bytes and the payload each.
RECURSIVE SumLens(_)
SumLens(packets) ==
    IF packets = <<>> THEN 0
    ELSE 2 + Len(Head(packets).pdata) + SumLens(Tail(packets))

\* C7: a packet whose declared length exceeds the payload bytes left in the
\* frame fails to decode; every packet of a decoded parcel has a payload as
\* long as its length byte says, and the checksum byte is never payload.
TruncationDetected ==
    lastNote.called =>
        /\ Truncated(lastNote.data) => ~lastNote.parsed.ok
        /\ lastNote.parsed.ok =>
              /\ \A k \in 1..Len(lastNote.parsed.plens) :
                    Len(lastNote.parsed.value.packets[k].pdata)
                        = lastNote.parsed.plens[k]
              /\ 5 + SumLens(lastNote.parsed.value.packets)
                    <= Len(lastNote.data) - 1

----------------------------------------------------------------------------
(* The command builders                                                    *)

MIN_TEMP == 16
MAX_TEMP == 32

PanasonicBLEMode(mode) ==
    PanasonicBLEParcel("APP", "I_UNIT1", "SET", <<Packet(66, <<mode>>)>>)

PanasonicBLEEnergySaving(state) ==
    PanasonicBLEParcel("APP", "I_UNIT1", "SET",
                       <<Packet(84, <<IF state THEN 1 ELSE 0>>)>>)

\* state += 2: 2 is off, 3 is on
PanasonicBLEPower(state) ==
    PanasonicBLEParcel("APP", "I_UNIT1", "SET", <<Packet(65, <<state + 2>>)>>)

PanasonicBLEStatusReq ==
    PanasonicBLEParcel("APP", "I_UNIT1", "REQ", <<Packet(129, <<4, 0, 14>>)>>)

\* int(x) of the quotient a / b: towards zero
TruncDiv(a, b) == IF a >= 0 THEN a \div b ELSE -((-a) \div b)

\* temp = int(temp * 2 + 70), the target given in tenths of a degree;
\* bytes([9, 0, temp, 0]) raises ValueError unless temp is in range(256)
PanasonicBLETemp(temp10) ==
    LET temp == TruncDiv(temp10 * 2 + 700, 10)
    IN  IF temp \notin Byte THEN Err("ValueError")
        ELSE Ok(PanasonicBLEParcel("APP", "I_UNIT1", "SET",
                                   <<Packet(76, <<9, 0, temp, 0>>)>>))

\* The fan-speed builder: a single byte, the value of the fan-speed member,
\* in a packet type of its own, which the protocol notes leave open.
KnownPacketTypes == {129, 33, 76, 65, 66, 84, 105}
FanModePacketType == CHOOSE t \in Byte : t \notin KnownPacketTypes

PanasonicBLEFanMode(mode) ==
    PanasonicBLEParcel("APP", "I_UNIT1", "SET",
                       <<Packet(FanModePacketType, <<mode>>)>>)

----------------------------------------------------------------------------
(* PanasonicHC: the commands and the write path                            *)

Command(kind, arg) == [kind |-> kind, arg |-> arg]
NoCommand == Command("none", 0)
StatusCommand == Command("status", 0)

\* the parcel each command method builds for _async_write_command
BuildCommand(c) ==
    CASE c.kind = "power" -> Ok(PanasonicBLEPower(IF c.arg THEN 1 ELSE 0))
      [] c.kind = "temperature" -> PanasonicBLETemp(c.arg)
      [] c.kind = "mode" -> Ok(PanasonicBLEMode(MODE[c.arg]))
      [] c.kind = "fanmode" -> Ok(PanasonicBLEFanMode(FANSPEED[c.arg]))
      [] c.kind = "energysaving" -> Ok(PanasonicBLEEnergySaving(c.arg))
      [] c.kind = "status" -> Ok(PanasonicBLEStatusReq)

\* a connected check that always passes
is_connected_unchecked == TRUE

is_connected == connected

\* a lock that never makes its caller wait
LockOpen == TRUE

\* asyncio.Lock.acquire returns at once when the lock is free and nobody
\* is queued for it; otherwise the caller queues
LockFree == ~locked /\ waiters = <<>>

Finish(t, r) ==
    /\ pc' = [pc EXCEPT ![t] = "done"]
    /\ result' = [result EXCEPT ![t] = r]

\* the lock is taken and write_gatt_char(BLE_CHAR_WRITE, data) is called
BeginWrite(t, c) ==
    /\ locked' = TRUE
    /\ acquired' = Append(acquired, t)
    /\ writes' = Append(writes,
                        [task |-> t, cmd |-> c,
                         data |-> ParcelEncode(BuildCommand(c).value),
                         linkUp |-> connected])
    /\ pc' = [pc EXCEPT ![t] = "writing"]

\* _async_write_command up to its first suspension
AsyncWriteCommand(t, c) ==
    IF ~is_connected
    THEN /\ Finish(t, "NotConnected")
         /\ UNCHANGED <<locked, waiters, acquired, writes>>
    ELSE IF LockFree
         THEN /\ BeginWrite(t, c)
              /\ UNCHANGED <<waiters, result>>
         ELSE /\ waiters' = Append(waiters, t)
              /\ pc' = [pc EXCEPT ![t] = "waiting"]
              /\ UNCHANGED <<locked, acquired, writes, result>>

\* a caller runs one of the command methods
Call(t, c) ==
    /\ pc[t] = "idle"
    /\ cmd' = [cmd EXCEPT ![t] = c]
    /\ IF ~BuildCommand(c).ok
       THEN /\ Finish(t, "BuildError")
            /\ UNCHANGED <<locked, waiters, acquired, writes>>
       ELSE AsyncWriteCommand(t, c)
    /\ UNCHANGED <<connected, codecVars, statusVars, notifyVars>>

\* the released lock wakes its first waiter, which takes it and writes
LockAcquired(t) ==
    /\ pc[t] = "waiting"
    /\ ~locked
    /\ waiters # <<>> /\ Head(waiters) = t
    /\ waiters' = Tail(waiters)
    /\ BeginWrite(t, cmd[t])
    /\ UNCHANGED <<connected, cmd, result, codecVars, statusVars, notifyVars>>

\* write_gatt_char returns, or raises BleakError / TimeoutError; the lock is
\* released either way
WriteReturn(t, ok) ==
    /\ pc[t] = "writing"
    /\ ok => connected
    /\ locked' = FALSE
    /\ Finish(t, IF ok THEN "ok" ELSE "WriteError")
    /\ UNCHANGED <<connected, waiters, cmd, acquired, writes,
                   codecVars, statusVars, notifyVars>>

\* async_connect, run by task 0: connect(), start_notify(), async_get_status()
AsyncConnect ==
    /\ pc[0] = "idle"
    /\ pc' = [pc EXCEPT ![0] = "connecting"]
    /\ UNCHANGED <<connected, locked, waiters, cmd, result, acquired, writes,
                   codecVars, statusVars, notifyVars>>

ConnectReturn(ok) ==
    /\ pc[0] = "connecting"
    /\ IF ok
       THEN /\ connected' = TRUE
            /\ pc' = [pc EXCEPT ![0] = "subscribing"]
            /\ UNCHANGED result
       ELSE /\ Finish(0, "ConnectError")
            /\ UNCHANGED connected
    /\ UNCHANGED <<locked, waiters, cmd, acquired, writes,
                   codecVars, statusVars, notifyVars>>

StartNotifyReturn(ok) ==
    /\ pc[0] = "subscribing"
    /\ ok => connected
    /\ cmd' = [cmd EXCEPT ![0] = IF ok THEN StatusCommand ELSE NoCommand]
    /\ IF ok
       THEN AsyncWriteCommand(0, StatusCommand)
       ELSE /\ Finish(0, "ConnectError")
            /\ UNCHANGED <<locked, waiters, acquired, writes>>
    /\ UNCHANGED <<connected, codecVars, statusVars, notifyVars>>

\* async_disconnect, or the link dropping
Disconnect ==
    /\ connected
    /\ connected' = FALSE
    /\ UNCHANGED <<locked, waiters, pc, cmd, result, acquired, writes,
                   codecVars, statusVars, notifyVars>>

----------------------------------------------------------------------------
(* WriteSpec: async_connect and NTasks callers issuing commands at once    *)

NTasks == 2

WriteTasks == 0..NTasks

WriteCommands == {StatusCommand, Command("power", TRUE)}

WriteInit ==
    /\ connected = FALSE /\ locked = FALSE /\ waiters = <<>>
    /\ pc = [t \in WriteTasks |-> "idle"]
    /\ cmd = [t \in WriteTasks |-> NoCommand]
    /\ result = [t \in WriteTasks |-> "none"]
    /\ acquired = <<>> /\ writes = <<>>
    /\ CodecIdle /\ StatusIdle /\ NotifyIdle

WriteNext ==
    \/ AsyncConnect
    \/ \E ok \in BOOLEAN : ConnectReturn(ok)
    \/ \E ok \in BOOLEAN : StartNotifyReturn(ok)
    \/ \E t \in 1..NTasks, c \in WriteCommands : Call(t, c)
    \/ \E t \in WriteTasks : LockAcquired(t)
    \/ \E t \in WriteTasks, ok \in BOOLEAN : WriteReturn(t, ok)
    \/ Disconnect

WriteSpec == WriteInit /\ [][WriteNext]_vars

Wrote(t) == {i \in 1..Len(writes) : writes[i].task = t}
PassedCheck(t) == result[t] \in {"ok", "WriteError"}

\* C3: at most one transport write is in flight at any time, and the
\* transport sees one whole write per command that passed the connected
\* check, in the order in which the commands acquired the lock.
WriteSerialization ==
    /\ Cardinality({t \in DOMAIN pc : pc[t] = "writing"}) <= 1
    /\ [i \in 1..Len(writes) |-> writes[i].task] = acquired
    /\ \A i \in 1..Len(writes) :
          /\ writes[i].cmd = cmd[writes[i].task]
          /\ writes[i].data = ParcelEncode(BuildCommand(writes[i].cmd).value)
    /\ \A t \in DOMAIN pc :
          /\ Cardinality(Wrote(t)) <= 1
          /\ pc[t] \in {"idle", "connecting", "subscribing", "waiting"}
                => Wrote(t) = {}
          /\ pc[t] = "writing" => Wrote(t) = {Len(writes)}
          /\ pc[t] = "done" => (Wrote(t) # {} <=> PassedCheck(t))
    /\ (\A t \in DOMAIN pc : pc[t] = "done")
          => Len(writes) = Cardinality({t \in DOMAIN pc : PassedCheck(t)})

WriteSerializationWitness ==
    /\ \A t \in DOMAIN pc : pc[t] = "done" /\ result[t] = "ok"
    /\ Len(writes) = NTasks + 1
    /\ acquired[Len(acquired)] = 1

\* C10: write_gatt_char is only ever called while the transport is connected.
WriteOnlyWhileConnected ==
    \A i \in 1..Len(writes) : writes[i].linkUp

----------------------------------------------------------------------------
(* CommandSpec: one caller running any command, connected or not, while    *)
(* status reports arrive                                                   *)

CommandTasks == 0..1

\* requested temperatures, in tenths of a degree
TempInputs == {-400, 100, 160, 213, 215, 320, 325, 400, 1000}

Commands ==
    {Command("power", b) : b \in BOOLEAN}
        \cup {Command("energysaving", b) : b \in BOOLEAN}
        \cup {Command("mode", m) : m \in DOMAIN MODE}
        \cup {Command("fanmode", f) : f \in DOMAIN FANSPEED}
        \cup {Command("temperature", t) : t \in TempInputs}
        \cup {StatusCommand}

CommandNotifyInputs ==
    { Frame(<<17, 1, 249, 4, 1, 129, 13>> \o StatusReport),
      Frame(<<17, 1, 249, 1, 1, 65, 1, 3>>) }

CommandInit ==
    /\ connected = FALSE /\ locked = FALSE /\ waiters = <<>>
    /\ pc = [t \in CommandTasks |-> "idle"]
    /\ cmd = [t \in CommandTasks |-> NoCommand]
    /\ result = [t \in CommandTasks |-> "none"]
    /\ acquired = <<>> /\ writes = <<>>
    /\ status = None /\ callbacks = <<>> /\ lastNote = NoNote
    /\ CodecIdle /\ StatusIdle

CommandNext ==
    \/ AsyncConnect
    \/ \E ok \in BOOLEAN : ConnectReturn(ok)
    \/ \E ok \in BOOLEAN : StartNotifyReturn(ok)
    \/ \E c \in Commands : Call(1, c)
    \/ \E t \in CommandTasks : LockAcquired(t)
    \/ \E t \in CommandTasks, ok \in BOOLEAN : WriteReturn(t, ok)
    \/ Disconnect
    \/ Register("a")
    \/ \E data \in CommandNotifyInputs : Notify(data)

CommandSpec == CommandInit /\ [][CommandNext]_vars

InRange(temp10) == MIN_TEMP * 10 <= temp10 /\ temp10 <= MAX_TEMP * 10

\* round(t * 2 + 70): 2 t + 70 is a whole number of fifths, never a tie
RoundTemp(temp10) == (temp10 * 2 + 700 + 5) \div 10

\* C8: no set-temperature parcel (packet type 76) for a target outside
\* [MIN_TEMP, MAX_TEMP] reaches the transport, and a target t in range is
\* written with payload [9, 0, round(t * 2 + 70), 0].
TemperatureValidated ==
    \A i \in 1..Len(writes) :
        writes[i].cmd.kind = "temperature" =>
            /\ InRange(writes[i].cmd.arg)
            /\ BuildCommand(writes[i].cmd).value.packets
                  = <<Packet(76, <<9, 0, RoundTemp(writes[i].cmd.arg), 0>>)>>

====
